---- MODULE Spec2Model ----
(***************************************************************************)
(* Model of export.py: DisplayBuffer, a fixed-size terminal screen that is *)
(* fed raw output chunks through write(), which tokenizes them with four   *)
(* regular expressions and a single-character fallback and applies each    *)
(* token to the grid, the cursor and the current colour.                   *)
(*                                                                         *)
(* Characters are their code points.  A colour is a tuple: <<>> is None,   *)
(* <<n>> an int, <<r, g, b>> a 3-tuple.  cursor_x, cursor_y are 0-based as *)
(* in the source; contents is a sequence of rows of cells, so the cell at  *)
(* (x, y) is contents[y + 1][x + 1].                                       *)
(***************************************************************************)
EXTENDS Integers, Sequences, FiniteSets, TLC

VARIABLES width, height, cursor_x, cursor_y, color, contents,
          data, status, tok, scrolled, nwrites, chunk,
          pc, out, frames, duration, tsarg, curTime, idx, written

\* the state of main(): the recording, the --timestamp argument, the loop
mainvars == <<frames, duration, tsarg, curTime, idx, written>>

vars == <<width, height, cursor_x, cursor_y, color, contents,
          data, status, tok, scrolled, nwrites, chunk,
          pc, out, frames, duration, tsarg, curTime, idx, written>>

----------------------------------------------------------------------------
(* Bounds of the model *)

MaxWidth == 3
MaxHeight == 2
MaxWrites == 2
MaxFrames == 2
MaxDelay == 2
MaxDuration == 3

----------------------------------------------------------------------------
(* Character codes named by the source *)

BEL == 7
BS == 8
LF == 10
CR == 13
ESC == 27
SP == 32
OSC8 == 157
CSI8 == 155
LBRACKET == 91
RBRACKET == 93
SEMI == 59
ChJ == 74
ChK == 75
Chm == 109
Ch0 == 48
Ch1 == 49
Ch2 == 50

None == <<>>

----------------------------------------------------------------------------
(* The regular expressions of DisplayBuffer, as the length of the match    *)
(* re.match finds at the start of d (0: no match).                         *)

RECURSIVE RunLen(_, _, _, _)
\* number of consecutive characters of d, from position p, within lo..hi
RunLen(d, p, lo, hi) ==
    IF p <= Len(d) /\ d[p] >= lo /\ d[p] <= hi
    THEN 1 + RunLen(d, p + 1, lo, hi)
    ELSE 0

RECURSIVE NotBelLen(_, _)
\* number of consecutive characters of d, from position p, other than BEL
NotBelLen(d, p) ==
    IF p <= Len(d) /\ d[p] # BEL THEN 1 + NotBelLen(d, p + 1) ELSE 0

\* (\x1b]|\x9d)
OSC_prefix(d) ==
    IF Len(d) >= 2 /\ d[1] = ESC /\ d[2] = RBRACKET THEN 2
    ELSE IF Len(d) >= 1 /\ d[1] = OSC8 THEN 1
    ELSE 0

\* (\x1b]|\x9d)[^\x07]*\x07
OSC_regex(d) ==
    LET p == OSC_prefix(d)
        n == NotBelLen(d, p + 1)
    IN  IF p > 0 /\ p + n + 1 <= Len(d) THEN p + n + 1 ELSE 0

\* (\x1b\[|\x9b)
CSI_prefix(d) ==
    IF Len(d) >= 2 /\ d[1] = ESC /\ d[2] = LBRACKET THEN 2
    ELSE IF Len(d) >= 1 /\ d[1] = CSI8 THEN 1
    ELSE 0

\* (\x1b\[|\x9b)([\x30-\x3f]*[\x20-\x2f]*[\x40-\x7e])
CSI_regex(d) ==
    LET p == CSI_prefix(d)
        n1 == RunLen(d, p + 1, 48, 63)
        n2 == RunLen(d, p + n1 + 1, 32, 47)
        f == p + n1 + n2 + 1
    IN  IF p > 0 /\ f <= Len(d) /\ d[f] >= 64 /\ d[f] <= 126 THEN f ELSE 0

\* match.group(2) of CSI_regex
CSI_group2(d) == SubSeq(d, CSI_prefix(d) + 1, CSI_regex(d))

\* \x1b[\x00-\x7f]
C0_regex(d) ==
    IF Len(d) >= 2 /\ d[1] = ESC /\ d[2] >= 0 /\ d[2] <= 127 THEN 2 ELSE 0

\* [\x20-\x7e]+
text_regex(d) == RunLen(d, 1, 32, 126)

\* data[n:]
Drop(d, n) == SubSeq(d, n + 1, Len(d))

----------------------------------------------------------------------------
(* The buffer as a value, so that the methods compose.  scrolled counts    *)
(* the iterations of moveCursor's scroll loop, raised records an uncaught  *)
(* exception.                                                              *)

Cell(c, col) == [c |-> c, color |-> col]

\* DisplayBuffer.__init__: the grid of default cells
NewContents(w, h) == [y \in 1..h |-> [x \in 1..w |-> Cell(SP, None)]]

Buf == [cursor_x |-> cursor_x, cursor_y |-> cursor_y, color |-> color,
        contents |-> contents, scrolled |-> 0, raised |-> FALSE]

\* __setitem__ that stores the character but not the current colour
setitem_nocolor(b, x, y, c) ==
    [b EXCEPT !.contents[y + 1][x + 1].c = c]

\* DisplayBuffer.__setitem__
setitem(b, x, y, c) ==
    [b EXCEPT !.contents[y + 1][x + 1] = Cell(c, b.color)]

\* for x in range(startx, endx): self[x, y] = ' '
BlankCols(b, startx, endx, y) ==
    [b EXCEPT !.contents[y + 1] =
        [x \in 1..width |->
            IF x - 1 >= startx /\ x - 1 < endx THEN Cell(SP, b.color) ELSE @[x]]]

\* for y in range(starty, endy): for x in range(self.width): self[x, y] = ' '
BlankRows(b, starty, endy) ==
    [b EXCEPT !.contents =
        [y \in 1..height |->
            IF y - 1 >= starty /\ y - 1 < endy
            THEN [x \in 1..width |-> Cell(SP, b.color)]
            ELSE @[y]]]

\* ScrollOnce that blanks the bottom row without rotating the rows
ScrollOnce_norotate(b) ==
    LET blanked == BlankCols(b, 0, width, height - 1)
    IN  [blanked EXCEPT !.cursor_y = @ - 1, !.scrolled = @ + 1]

\* ScrollOnce that appends the row without popping it first
ScrollOnce_nopop(b) ==
    LET rotated == [b EXCEPT !.contents = @ \o <<Head(@)>>]
        blanked == BlankCols(rotated, 0, width, height - 1)
    IN  [blanked EXCEPT !.cursor_y = @ - 1, !.scrolled = @ + 1]

\* one iteration of the scroll loop of moveCursor
ScrollOnce(b) ==
    LET rotated == [b EXCEPT !.contents = Tail(@) \o <<Head(@)>>]
        blanked == BlankCols(rotated, 0, width, height - 1)
    IN  [blanked EXCEPT !.cursor_y = @ - 1, !.scrolled = @ + 1]

RECURSIVE ScrollLoop(_)
\* while self.cursor_y >= self.height: ...
ScrollLoop(b) ==
    IF b.cursor_y >= height THEN ScrollLoop(ScrollOnce(b)) ELSE b

\* moveCursor that wraps only once the cursor is past column width
moveCursor_latewrap(b, dx, dy) ==
    LET x1 == b.cursor_x + dx
        wrap == x1 > width
        x2 == IF wrap THEN 0 ELSE x1
        dy2 == IF wrap THEN dy + 1 ELSE dy
        x3 == IF x2 < 0 THEN 0 ELSE x2
    IN  ScrollLoop([b EXCEPT !.cursor_x = x3, !.cursor_y = @ + dy2])

\* moveCursor without the clamp of a negative cursor_x
moveCursor_noclamp(b, dx, dy) ==
    LET x1 == b.cursor_x + dx
        wrap == x1 >= width
        x2 == IF wrap THEN 0 ELSE x1
        dy2 == IF wrap THEN dy + 1 ELSE dy
    IN  ScrollLoop([b EXCEPT !.cursor_x = x2, !.cursor_y = @ + dy2])

\* DisplayBuffer.moveCursor
moveCursor(b, dx, dy) ==
    LET x1 == b.cursor_x + dx
        wrap == x1 >= width
        x2 == IF wrap THEN 0 ELSE x1
        dy2 == IF wrap THEN dy + 1 ELSE dy
        x3 == IF x2 < 0 THEN 0 ELSE x2
    IN  ScrollLoop([b EXCEPT !.cursor_x = x3, !.cursor_y = @ + dy2])

RECURSIVE writeText_rec(_, _)
writeText_rec(b, text) ==
    IF text = <<>> THEN b
    ELSE writeText_rec(moveCursor(setitem(b, b.cursor_x, b.cursor_y, Head(text)), 1, 0),
                       Tail(text))

\* writeText that cuts a run off at the end of the line it starts on
writeText_trunc(b, text) ==
    writeText_rec(b, SubSeq(text, 1,
        IF Len(text) < width - b.cursor_x THEN Len(text) ELSE width - b.cursor_x))

RECURSIVE writeText(_, _)
\* DisplayBuffer.writeText
writeText(b, text) ==
    IF text = <<>> THEN b
    ELSE writeText(moveCursor(setitem(b, b.cursor_x, b.cursor_y, Head(text)), 1, 0),
                   Tail(text))

\* DisplayBuffer.writeCR
writeCR(b) == moveCursor(b, -b.cursor_x, 0)

\* writeLF as a bare row advance, without the return to column 0
writeLF_bare(b) == moveCursor(b, 0, 1)

\* DisplayBuffer.writeLF
writeLF(b) == moveCursor(b, -b.cursor_x, 1)

\* DisplayBuffer.writeBackspace
writeBackspace(b) ==
    LET m == moveCursor(b, -1, 0)
    IN  setitem(m, m.cursor_x, m.cursor_y, SP)

\* the mode strings erase() knows
KnownMode(sequence) ==
    sequence \in {<<>>, <<Ch0>>, <<Ch1>>, <<Ch2>>}

\* erase whose to-end range starts one column right of the cursor
erase_aftercursor(b, function, sequence) ==
    IF ~KnownMode(sequence) THEN [b EXCEPT !.raised = TRUE]
    ELSE
    LET toEnd == sequence = <<Ch0>> \/ sequence = <<>>
        toStart == sequence = <<Ch1>>
        startx == IF toEnd THEN b.cursor_x + 1 ELSE 0
        endx == IF toStart THEN b.cursor_x ELSE width
        starty == IF toEnd THEN b.cursor_y + 1 ELSE 0
        endy == IF toStart THEN b.cursor_y - 1 ELSE height
        line == BlankCols(b, startx, endx, b.cursor_y)
    IN  IF function = ChK THEN line ELSE BlankRows(line, starty, endy)

\* DisplayBuffer.erase; an unknown mode leaves startx unbound and the first
\* range() raises UnboundLocalError before any cell is touched
erase(b, function, sequence) ==
    IF ~KnownMode(sequence) THEN [b EXCEPT !.raised = TRUE]
    ELSE
    LET toEnd == sequence = <<Ch0>> \/ sequence = <<>>
        toStart == sequence = <<Ch1>>
        startx == IF toEnd THEN b.cursor_x ELSE 0
        endx == IF toStart THEN b.cursor_x ELSE width
        starty == IF toEnd THEN b.cursor_y + 1 ELSE 0
        endy == IF toStart THEN b.cursor_y - 1 ELSE height
        line == BlankCols(b, startx, endx, b.cursor_y)
    IN  IF function = ChK THEN line ELSE BlankRows(line, starty, endy)

----------------------------------------------------------------------------
(* SGR *)

RECURSIVE ParseInt(_)
\* int(part) of a run of decimal digits
ParseInt(digits) ==
    IF digits = <<>> THEN 0
    ELSE ParseInt(SubSeq(digits, 1, Len(digits) - 1)) * 10
         + (digits[Len(digits)] - Ch0)

RECURSIVE FindParts(_, _)
\* [int(part) for part in re.findall(r'(\d+);?', sequence)], from position p
FindParts(sequence, p) ==
    IF p > Len(sequence) THEN <<>>
    ELSE LET n == RunLen(sequence, p, 48, 57)
         IN  IF n = 0 THEN FindParts(sequence, p + 1)
             ELSE <<ParseInt(SubSeq(sequence, p, p + n - 1))>>
                  \o FindParts(sequence, p + n)

\* parts[i], i 0-based
At(parts, i) == parts[i + 1]

\* the branch of parameter 38 in writeSgr: the new buffer and the increment
\* of i; parts[i+1] and parts[i+3] raise IndexError past the end of parts
Sgr38(b, parts, i) ==
    IF i + 1 >= Len(parts) THEN [b |-> [b EXCEPT !.raised = TRUE], skip |-> 0]
    ELSE IF At(parts, i + 1) = 5
         THEN [b |-> [b EXCEPT !.color = <<At(parts, i + 1)>>], skip |-> 1]
    ELSE IF Len(parts) >= i + 3
         THEN IF i + 3 >= Len(parts)
              THEN [b |-> [b EXCEPT !.raised = TRUE], skip |-> 0]
              ELSE [b |-> [b EXCEPT !.color =
                              <<At(parts, i + 1), At(parts, i + 2), At(parts, i + 3)>>],
                    skip |-> 3]
    ELSE [b |-> b, skip |-> 0]

RECURSIVE SgrLoop(_, _, _)
\* while i < len(parts): ... i += 1
SgrLoop(b, parts, i) ==
    IF b.raised \/ i >= Len(parts) THEN b
    ELSE LET p == At(parts, i)
         IN  IF p = 0 \/ p = 22 \/ p = 39
             THEN SgrLoop([b EXCEPT !.color = None], parts, i + 1)
             ELSE IF p >= 30 /\ p <= 37
             THEN SgrLoop([b EXCEPT !.color = <<p - 30>>], parts, i + 1)
             ELSE IF p = 38
             THEN LET r == Sgr38(b, parts, i)
                  IN  SgrLoop(r.b, parts, i + r.skip + 1)
             ELSE SgrLoop(b, parts, i + 1)

\* DisplayBuffer.writeSgr
writeSgr(b, sequence) ==
    IF sequence = <<Ch0>> \/ sequence = <<>>
    THEN [b EXCEPT !.color = None]
    ELSE SgrLoop(b, FindParts(sequence, 1), 0)

\* writeCsi that hands every function other than m to erase
writeCsi_eraseother(b, sequence) ==
    LET function == sequence[Len(sequence)]
        rest == SubSeq(sequence, 1, Len(sequence) - 1)
    IN  IF function = Chm THEN writeSgr(b, rest)
        ELSE erase(b, function, rest)

\* DisplayBuffer.writeCsi
writeCsi(b, sequence) ==
    LET function == sequence[Len(sequence)]
        rest == SubSeq(sequence, 1, Len(sequence) - 1)
    IN  IF function = Chm THEN writeSgr(b, rest)
        ELSE IF function = ChJ \/ function = ChK THEN erase(b, function, rest)
        ELSE b

----------------------------------------------------------------------------
(* render: the sequence of calls made on the renderer *)

Call(op, args) == [op |-> op, args |-> args]

\* lines 235-240: the call that switches the renderer to colour col
ColorCall(col) ==
    IF col = None THEN Call("restoreColor", <<>>)
    ELSE IF Len(col) = 1 THEN Call("setAnsiColor", col)
    ELSE Call("setRgbColor", col)

RECURSIVE RenderRow_percell(_, _, _)
\* RenderRow that switches the colour before every cell
RenderRow_percell(row, x, prevcolor) ==
    IF x > Len(row) THEN [calls |-> <<>>, prevcolor |-> prevcolor]
    ELSE LET cell == row[x]
             rest == RenderRow_percell(row, x + 1, cell.color)
         IN  [calls |-> <<ColorCall(cell.color), Call("writeCharacter", <<cell.c>>)>>
                        \o rest.calls,
              prevcolor |-> rest.prevcolor]

RECURSIVE RenderRow(_, _, _)
\* for cell in row: ..., from cell x on; the calls and the last prevcolor
RenderRow(row, x, prevcolor) ==
    IF x > Len(row) THEN [calls |-> <<>>, prevcolor |-> prevcolor]
    ELSE LET cell == row[x]
             switch == IF cell.color # prevcolor
                       THEN <<ColorCall(cell.color)>> ELSE <<>>
             rest == RenderRow(row, x + 1, cell.color)
         IN  [calls |-> switch \o <<Call("writeCharacter", <<cell.c>>)>> \o rest.calls,
              prevcolor |-> rest.prevcolor]

RECURSIVE RenderRows(_, _, _)
\* for row in self.contents: ..., from row y on
RenderRows(rows, y, prevcolor) ==
    IF y > Len(rows) THEN <<>>
    ELSE LET r == RenderRow(rows[y], 1, prevcolor)
         IN  r.calls \o <<Call("writeNewline", <<>>)>>
             \o RenderRows(rows, y + 1, r.prevcolor)

\* DisplayBuffer.render
render(rows) == RenderRows(rows, 1, None)

----------------------------------------------------------------------------
(* Inputs: the chunks handed to write() *)

RECURSIVE Dec(_)
\* the decimal digits of n
Dec(n) == IF n < 10 THEN <<Ch0 + n>> ELSE Dec(n \div 10) \o <<Ch0 + (n % 10)>>

RECURSIVE Join(_)
\* the integers of ns in decimal, separated by semicolons
Join(ns) ==
    IF ns = <<>> THEN <<>>
    ELSE IF Len(ns) = 1 THEN Dec(ns[1])
    ELSE Dec(ns[1]) \o <<SEMI>> \o Join(Tail(ns))

\* group 2 of the SGR sequence with parameters ns
SgrSeq(ns) == Join(ns) \o <<Chm>>

\* ESC [ params final
Csi(params, final) == <<ESC, LBRACKET>> \o params \o <<final>>

Sgr(ns) == Csi(Join(ns), Chm)

SgrParams ==
    { <<>>, <<0>>, <<31>>, <<39>>, <<22>>, <<4, 7, 24, 27, 41, 48>>,
      <<48, 5, 31>>,
      <<38, 5, 196>>, <<38, 5, 38>>, <<38, 5, 0>>,
      <<38, 2, 10, 20, 30>>, <<38, 2, 255, 0, 7>>,
      <<38>>, <<38, 2>>, <<38, 2, 10>>, <<38, 2, 10, 20>> }

EraseModes == { <<>>, <<Ch0>>, <<Ch1>>, <<Ch2>>, <<Ch0 + 3>> }

TextRuns == { <<97>>, <<97, 98>>, <<97, 98, 99>>, <<97, 98, 99, 100>> }

ControlChunks ==
    { <<BS>>, <<CR>>, <<LF>>, <<9>>, <<ESC>>,
      <<ESC, 61>>, <<ESC, RBRACKET, Ch0, SEMI, 116, BEL>>, <<OSC8, 116>>,
      Csi(<<>>, 72), Csi(<<63, Ch2, 53>>, 104) }

MixedChunks ==
    { <<111, 110, 101, LF, 116, 119, 111, LF, 101, 110, 100, LF>>,
      <<97, 98, 99, CR>>, <<97, CR>>,
      <<CSI8, Ch0 + 3, Ch2, Chm, 98, LF>>,
      Sgr(<<38, 5, 196>>) \o <<88>>,
      Sgr(<<38, 2, 10, 20, 30>>) \o <<90>>,
      <<97, LF>>, <<97, 98, 99, CR, 100>>, <<97, 98, LF, 99, 100>>,
      Sgr(<<31>>) \o <<98, 99>>,
      Sgr(<<31>>) \o <<97, 97>> \o Sgr(<<32>>) \o <<98, 98>> \o Sgr(<<31>>) \o <<97>> }

Chunks ==
    {Sgr(ns) : ns \in SgrParams}
    \cup {Csi(m, f) : m \in EraseModes, f \in {ChJ, ChK}}
    \cup TextRuns \cup ControlChunks \cup MixedChunks \cup {<<>>}

Dims == ((1..MaxWidth) \X (1..MaxHeight)) \cup {<<5, 2>>, <<2, 3>>, <<5, 3>>}

----------------------------------------------------------------------------
(* The state machine *)

Init ==
    /\ \E d \in Dims : width = d[1] /\ height = d[2]
    /\ cursor_x = 0
    /\ cursor_y = 0
    /\ color = None
    /\ contents = NewContents(width, height)
    /\ data = <<>>
    /\ status = "ready"
    /\ tok = [kind |-> "init", arg |-> <<>>]
    /\ scrolled = 0
    /\ nwrites = 0
    /\ chunk = <<>>
    /\ pc = "api"
    /\ out = <<>>
    /\ frames = <<>>
    /\ duration = 0
    /\ tsarg = <<>>
    /\ curTime = 0
    /\ idx = 0
    /\ written = <<>>

\* a call of DisplayBuffer.write: the loop has not started yet
Write ==
    /\ pc = "api"
    /\ status = "ready"
    /\ data = <<>>
    /\ nwrites < MaxWrites
    /\ \E c \in Chunks :
        /\ data' = c
        /\ chunk' = c
    /\ nwrites' = nwrites + 1
    /\ tok' = [kind |-> "write", arg |-> <<>>]
    /\ scrolled' = 0
    /\ UNCHANGED <<width, height, cursor_x, cursor_y, color, contents, status>>
    /\ UNCHANGED <<pc, out, mainvars>>

\* the end of one iteration of the loop of write: b is the buffer the token
\* left, n the number of characters it consumed
Commit(b, n, kind, arg) ==
    /\ cursor_x' = b.cursor_x
    /\ cursor_y' = b.cursor_y
    /\ color' = b.color
    /\ contents' = b.contents
    /\ scrolled' = b.scrolled
    /\ tok' = [kind |-> kind, arg |-> arg]
    /\ IF b.raised
       THEN status' = "raised" /\ data' = data
       ELSE status' = status /\ data' = Drop(data, n)
    /\ UNCHANGED <<width, height, nwrites, chunk, pc, out, mainvars>>

Running == status = "ready" /\ data # <<>>

\* lines 80-83
StepOSC ==
    /\ Running
    /\ OSC_regex(data) > 0
    /\ Commit(Buf, OSC_regex(data), "osc", SubSeq(data, 1, OSC_regex(data)))

\* lines 85-89
StepCSI ==
    /\ Running
    /\ OSC_regex(data) = 0
    /\ CSI_regex(data) > 0
    /\ Commit(writeCsi(Buf, CSI_group2(data)), CSI_regex(data), "csi", CSI_group2(data))

\* lines 91-94
StepC0 ==
    /\ Running
    /\ OSC_regex(data) = 0
    /\ CSI_regex(data) = 0
    /\ C0_regex(data) > 0
    /\ Commit(Buf, C0_regex(data), "c0", SubSeq(data, 1, 2))

\* lines 96-100
StepText ==
    /\ Running
    /\ OSC_regex(data) = 0
    /\ CSI_regex(data) = 0
    /\ C0_regex(data) = 0
    /\ text_regex(data) > 0
    /\ Commit(writeText(Buf, SubSeq(data, 1, text_regex(data))), text_regex(data),
              "text", SubSeq(data, 1, text_regex(data)))

\* lines 102-111
StepChar ==
    /\ Running
    /\ OSC_regex(data) = 0
    /\ CSI_regex(data) = 0
    /\ C0_regex(data) = 0
    /\ text_regex(data) = 0
    /\ LET c == data[1]
       IN  IF c = BS THEN Commit(writeBackspace(Buf), 1, "bs", <<c>>)
           ELSE IF c = CR THEN Commit(writeCR(Buf), 1, "cr", <<c>>)
           ELSE IF c = LF THEN Commit(writeLF(Buf), 1, "lf", <<c>>)
           ELSE Commit(Buf, 1, "unmatched", <<c>>)

\* a call of DisplayBuffer.render once no write is in progress; the buffer
\* is read, not changed
Render ==
    /\ pc \in {"api", "render"}
    /\ status = "ready"
    /\ data = <<>>
    /\ out' = render(contents)
    /\ pc' = "done"
    /\ tok' = [kind |-> "render", arg |-> <<>>]
    /\ scrolled' = 0
    /\ UNCHANGED <<width, height, cursor_x, cursor_y, color, contents,
                   data, status, nwrites, chunk, mainvars>>

----------------------------------------------------------------------------
(* write() as a function of the buffer and the chunk *)

\* one iteration of the loop of write on remaining input d: the buffer it
\* leaves and the number of characters it consumes
TokenStep(b, d) ==
    IF OSC_regex(d) > 0 THEN [b |-> b, n |-> OSC_regex(d)]
    ELSE IF CSI_regex(d) > 0
         THEN [b |-> writeCsi(b, CSI_group2(d)), n |-> CSI_regex(d)]
    ELSE IF C0_regex(d) > 0 THEN [b |-> b, n |-> C0_regex(d)]
    ELSE IF text_regex(d) > 0
         THEN [b |-> writeText(b, SubSeq(d, 1, text_regex(d))), n |-> text_regex(d)]
    ELSE IF d[1] = BS THEN [b |-> writeBackspace(b), n |-> 1]
    ELSE IF d[1] = CR THEN [b |-> writeCR(b), n |-> 1]
    ELSE IF d[1] = LF THEN [b |-> writeLF(b), n |-> 1]
    ELSE [b |-> b, n |-> 1]

RECURSIVE writeLoop(_, _)
\* DisplayBuffer.write; an exception ends it, and every later call with it
writeLoop(b, d) ==
    IF b.raised \/ d = <<>> THEN b
    ELSE LET r == TokenStep(b, d)
         IN  IF r.b.raised THEN r.b ELSE writeLoop(r.b, Drop(d, r.n))

----------------------------------------------------------------------------
(* main(): replay of a recording up to a timestamp, then render *)

\* lines 251-252
Timestamp == IF tsarg = <<>> THEN duration ELSE tsarg[1]

Frame(delay, output) == [delay |-> delay, output |-> output]

MainChunks == { <<97>>, <<98, LF>> }

FrameSet == {Frame(d, o) : d \in 0..MaxDelay, o \in MainChunks}

\* recordings for the timing of the loop
TimedFrames == UNION {[1..n -> FrameSet] : n \in 0..MaxFrames}

SplitStrings ==
    { <<97, 98, 99, 100>>,
      Sgr(<<31>>) \o <<97, 98>>,
      <<ESC, RBRACKET, Ch0, SEMI, 116, BEL, 97>>,
      <<ESC, 61, 97>>,
      <<97, LF, 98>>,
      Sgr(<<38, 5, 196>>) \o <<88>>,
      Csi(<<Ch0 + 3>>, ChJ) \o <<97>>,
      <<CSI8, Ch0 + 3, Ch1, Chm, 97, BS>>,
      <<ESC, ESC, LBRACKET, Ch0 + 3, Ch1, Chm, 97>>,
      <<OSC8, 97, 98>>,
      <<97, 98, CR, 99>> \o Csi(<<>>, ChK) }

SplitPrefixes == { <<>>, <<97>>, Sgr(<<32>>) }

\* recordings that deliver a string in two chunks, after a first chunk
SplitsOf(p, s) ==
    { <<Frame(0, p), Frame(0, SubSeq(s, 1, k)), Frame(0, SubSeq(s, k + 1, Len(s)))>> :
        k \in 0..Len(s) }

SplitFrames == UNION {SplitsOf(p, s) : p \in SplitPrefixes, s \in SplitStrings}

MainDims == {<<3, 2>>, <<2, 1>>, <<5, 2>>}

InitMain ==
    /\ \E d \in MainDims : width = d[1] /\ height = d[2]
    /\ cursor_x = 0
    /\ cursor_y = 0
    /\ color = None
    /\ contents = NewContents(width, height)
    /\ data = <<>>
    /\ status = "ready"
    /\ tok = [kind |-> "init", arg |-> <<>>]
    /\ scrolled = 0
    /\ nwrites = 0
    /\ chunk = <<>>
    /\ pc = "loop"
    /\ out = <<>>
    /\ \/ /\ frames \in TimedFrames
          /\ duration \in 0..MaxDuration
          /\ tsarg \in {<<>>} \cup {<<t>> : t \in 0..MaxDuration}
       \/ /\ frames \in SplitFrames
          /\ duration = 0
          /\ tsarg = <<1>>
    /\ curTime = 0
    /\ idx = 0
    /\ written = <<>>

\* lines 256-261, the frame is before the timestamp: it is written
MainWrite ==
    /\ pc = "loop" /\ status = "ready" /\ data = <<>>
    /\ idx < Len(frames)
    /\ curTime + frames[idx + 1].delay < Timestamp
    /\ curTime' = curTime + frames[idx + 1].delay
    /\ idx' = idx + 1
    /\ data' = frames[idx + 1].output
    /\ chunk' = frames[idx + 1].output
    /\ written' = Append(written, frames[idx + 1].output)
    /\ nwrites' = nwrites + 1
    /\ tok' = [kind |-> "write", arg |-> <<>>]
    /\ scrolled' = 0
    /\ UNCHANGED <<width, height, cursor_x, cursor_y, color, contents, status,
                   pc, out, frames, duration, tsarg>>

\* lines 256-259, curTime >= timestamp: break
MainBreak ==
    /\ pc = "loop" /\ status = "ready" /\ data = <<>>
    /\ idx < Len(frames)
    /\ curTime + frames[idx + 1].delay >= Timestamp
    /\ curTime' = curTime + frames[idx + 1].delay
    /\ idx' = idx + 1
    /\ pc' = "render"
    /\ tok' = [kind |-> "break", arg |-> <<>>]
    /\ scrolled' = 0
    /\ UNCHANGED <<width, height, cursor_x, cursor_y, color, contents, status,
                   data, chunk, written, nwrites, out, frames, duration, tsarg>>

\* line 256, stdout is exhausted
MainEnd ==
    /\ pc = "loop" /\ status = "ready" /\ data = <<>>
    /\ idx = Len(frames)
    /\ pc' = "render"
    /\ tok' = [kind |-> "end", arg |-> <<>>]
    /\ scrolled' = 0
    /\ UNCHANGED <<width, height, cursor_x, cursor_y, color, contents, status,
                   data, chunk, written, nwrites, out, mainvars>>

NextMain ==
    MainWrite \/ MainBreak \/ MainEnd
    \/ StepOSC \/ StepCSI \/ StepC0 \/ StepText \/ StepChar \/ Render

SpecMain == InitMain /\ [][NextMain]_vars

----------------------------------------------------------------------------
(* The buffer driven directly: any chunks, then render *)

Next == Write \/ StepOSC \/ StepCSI \/ StepC0 \/ StepText \/ StepChar \/ Render

Spec == Init /\ [][Next]_vars

----------------------------------------------------------------------------
(* Helpers of the properties *)

\* the characters of logical row y (0-based)
RowChars(y) == [x \in 1..width |-> contents[y + 1][x].c]

\* the last step was the SGR sequence CSI ns m, written canonically
IsSgr(ns) == tok.kind = "csi" /\ tok.arg = SgrSeq(ns)

\* the parameters of the last CSI token
TokParts == FindParts(SubSeq(tok.arg, 1, Len(tok.arg) - 1), 1)

ThreeLines == <<111, 110, 101, LF, 116, 119, 111, LF, 101, 110, 100, LF>>

----------------------------------------------------------------------------
(* C1: after every processed token the cursor is inside the grid:          *)
(* 0 <= cursor_x < width and 0 <= cursor_y < height.                       *)

C1_CursorInBounds ==
    /\ 0 <= cursor_x /\ cursor_x < width
    /\ 0 <= cursor_y /\ cursor_y < height

\* a text run that wrapped off the bottom row and scrolled
C1_Witness ==
    /\ tok.kind = "text" /\ Len(tok.arg) >= 2
    /\ width >= 2 /\ height >= 2
    /\ scrolled >= 1
    /\ C1_CursorInBounds

----------------------------------------------------------------------------
(* C2: for every n in 0..255, CSI 38;5;n m leaves the current colour at    *)
(* the indexed colour n, without raising.                                  *)

C2_Indexed256 ==
    \A n \in 0..255 :
        IsSgr(<<38, 5, n>>) => status = "ready" /\ color = <<n>>

----------------------------------------------------------------------------
(* C3: for every r, g, b in 0..255, CSI 38;2;r;g;b m leaves the current    *)
(* colour at Rgb(r, g, b), without raising.                                *)

C3_Truecolor ==
    (/\ tok.kind = "csi"
     /\ Len(TokParts) = 5
     /\ IsSgr(TokParts)
     /\ TokParts[1] = 38 /\ TokParts[2] = 2
     /\ \A i \in 3..5 : TokParts[i] \in 0..255)
    => /\ status = "ready"
       /\ color = <<TokParts[3], TokParts[4], TokParts[5]>>

----------------------------------------------------------------------------
(* C4: an SGR sequence whose 38 has too few parameters after it (38 last,  *)
(* or 38, a parameter other than 5, and fewer than three more) does not    *)
(* raise and leaves the current colour unchanged.                          *)

TooFew38(ns) ==
    /\ Len(ns) >= 1 /\ ns[1] = 38
    /\ \/ Len(ns) = 1
       \/ ns[2] # 5 /\ Len(ns) - 2 < 3

C4_TooFewIsHarmless ==
    [][ (tok'.kind = "csi" /\ tok'.arg[Len(tok'.arg)] = Chm
         /\ TooFew38(TokParts'))
        => status' = "ready" /\ color' = color ]_vars

----------------------------------------------------------------------------
(* C5: an erase command (J or K) with a mode other than "", "0", "1", "2"  *)
(* does not raise and changes neither grid, cursor nor current colour.     *)

C5_UnknownEraseIsNoop ==
    [][ (tok'.kind = "csi" /\ tok'.arg[Len(tok'.arg)] \in {ChJ, ChK}
         /\ ~KnownMode(SubSeq(tok'.arg, 1, Len(tok'.arg) - 1)))
        => status' = "ready"
           /\ UNCHANGED <<contents, cursor_x, cursor_y, color>> ]_vars

----------------------------------------------------------------------------
(* C6: an SGR sequence of attribute and background parameters only (1, 4,  *)
(* 7, 22, 24, 27, 40..47, 48, 48 with its own arguments) does not raise    *)
(* and leaves the current colour as it was.                                *)

RECURSIVE AttrOnly(_)
AttrOnly(ns) ==
    IF ns = <<>> THEN TRUE
    ELSE IF ns[1] \in {1, 4, 7, 22, 24, 27} \cup (40..47) THEN AttrOnly(Tail(ns))
    ELSE IF ns[1] # 48 THEN FALSE
    ELSE IF Len(ns) >= 3 /\ ns[2] = 5 THEN AttrOnly(SubSeq(ns, 4, Len(ns)))
    ELSE IF Len(ns) >= 5 /\ ns[2] = 2 THEN AttrOnly(SubSeq(ns, 6, Len(ns)))
    ELSE AttrOnly(Tail(ns))

C6_AttributesKeepColor ==
    [][ (tok'.kind = "csi" /\ tok'.arg[Len(tok'.arg)] = Chm
         /\ TokParts' # <<>> /\ AttrOnly(TokParts'))
        => status' = "ready" /\ color' = color ]_vars

----------------------------------------------------------------------------
(* C7: after a scroll the newly appended bottom row is all spaces with     *)
(* colour None, whatever the current colour.  (Stated where the scroll is  *)
(* the last thing the token did: a line feed, or a text run whose last     *)
(* character wrapped.)                                                     *)

C7_ScrolledRowIsNone ==
    (tok.kind \in {"lf", "text"} /\ scrolled >= 1 /\ cursor_x = 0)
    => \A x \in 1..width : contents[height][x] = Cell(SP, None)

----------------------------------------------------------------------------
(* C8: each scroll shifts the grid up by one row and takes one off         *)
(* cursor_y.  A line feed on the bottom row: row i after is row i+1 before *)
(* for i in 0..height-2 and the cursor stays on the bottom row.  Any token *)
(* that scrolled k times: the rows above the cursor row moved up k rows,   *)
(* and cursor_y is its unscrolled value less k.  Three LF-terminated lines *)
(* in a 2-row buffer leave the last line in row 0 and the first nowhere.   *)

C8_LineFeedShift ==
    (tok'.kind = "lf" /\ scrolled' >= 1)
    => /\ scrolled' = 1
       /\ \A i \in 1..(height - 1) : contents'[i] = contents[i + 1]
       /\ cursor_y' = (cursor_y + 1) - 1

C8_AnyShift ==
    scrolled' >= 1
    => /\ \A j \in 1..cursor_y :
            j - scrolled' >= 1 => contents'[j - scrolled'] = contents[j]
       /\ tok'.kind = "text"
            => cursor_y' = cursor_y + ((cursor_x + Len(tok'.arg)) \div width) - scrolled'

C8_ThreeLines ==
    (width = 5 /\ height = 2 /\ nwrites = 1 /\ chunk = ThreeLines
     /\ data = <<>> /\ status = "ready")
    => /\ RowChars(0) = <<101, 110, 100, SP, SP>>
       /\ \A y \in 0..1 : RowChars(y) # <<111, 110, 101, SP, SP>>
       /\ cursor_y = 1

C8_ScrollShiftsUp ==
    /\ [][C8_LineFeedShift /\ C8_AnyShift]_vars
    /\ []C8_ThreeLines

\* a line feed that scrolled a grid whose bottom row was not blank
C8_Witness ==
    /\ tok.kind = "lf" /\ scrolled = 1
    /\ height >= 2
    /\ \E x \in 1..width : contents[height - 1][x].c # SP

----------------------------------------------------------------------------
(* C9: the grid has exactly height rows of exactly width cells each, in    *)
(* every reachable state.                                                  *)

C9_GridSize ==
    /\ DOMAIN contents = 1..height
    /\ \A y \in 1..height : DOMAIN contents[y] = 1..width

\* a text run that scrolled twice
C9_Witness ==
    /\ tok.kind = "text"
    /\ height >= 2
    /\ scrolled >= 2
    /\ C9_GridSize

----------------------------------------------------------------------------
(* C10: erase to-start (mode "1", K or J) leaves spaces in columns         *)
(* 0..cursor_x of the cursor row, the cursor column included.              *)

----------------------------------------------------------------------------
(* C11: CSI 1 J with the cursor on row cy blanks every full row 0..cy-1.   *)

----------------------------------------------------------------------------
(* C12: erase to-end (mode "" or "0") at (cx, cy) leaves spaces in columns *)
(* cx..width-1 of row cy and columns 0..cx-1 unchanged; K changes no other *)
(* row; J also blanks rows cy+1..height-1 and leaves rows 0..cy-1          *)
(* unchanged.  The cursor does not move.                                   *)

ToEndK == {<<ChK>>, <<Ch0, ChK>>}
ToEndJ == {<<ChJ>>, <<Ch0, ChJ>>}

C12_Step ==
    (tok'.kind = "csi" /\ tok'.arg \in ToEndK \cup ToEndJ)
    => /\ status' = "ready"
       /\ cursor_x' = cursor_x /\ cursor_y' = cursor_y
       /\ \A x \in 1..width :
            IF x - 1 >= cursor_x
            THEN contents'[cursor_y + 1][x].c = SP
            ELSE contents'[cursor_y + 1][x] = contents[cursor_y + 1][x]
       /\ \A y \in 1..height :
            IF y - 1 < cursor_y \/ (y - 1 > cursor_y /\ tok'.arg \in ToEndK)
            THEN contents'[y] = contents[y]
            ELSE y - 1 > cursor_y => \A x \in 1..width : contents'[y][x].c = SP

C12_EraseToEnd == [][C12_Step]_vars

\* an erase to-end in the middle of a row that had text left of the cursor
C12_Witness ==
    /\ tok.kind = "csi" /\ tok.arg \in ToEndK \cup ToEndJ
    /\ cursor_x >= 1 /\ cursor_x < width
    /\ contents[cursor_y + 1][1].c # SP
    /\ status = "ready"

----------------------------------------------------------------------------
(* C13: a line feed moves the cursor to column 0 and down one row,         *)
(* scrolling once on the last row; a carriage return moves it to column 0  *)
(* of the same row.  On 5x3, "ab" LF "cd" leaves the cursor at (2, 1),     *)
(* row 0 reading "ab   " and row 1 starting with "cd".                     *)

AbLfCd == <<97, 98, LF, 99, 100>>

C13_Step ==
    /\ tok'.kind = "lf"
        => /\ cursor_x' = 0
           /\ IF cursor_y < height - 1
              THEN cursor_y' = cursor_y + 1 /\ scrolled' = 0 /\ contents' = contents
              ELSE cursor_y' = cursor_y /\ scrolled' = 1
    /\ tok'.kind = "cr"
        => /\ cursor_x' = 0 /\ cursor_y' = cursor_y
           /\ scrolled' = 0 /\ contents' = contents

C13_Example ==
    (width = 5 /\ height = 3 /\ nwrites = 1 /\ chunk = AbLfCd
     /\ data = <<>> /\ status = "ready")
    => /\ cursor_x = 2 /\ cursor_y = 1
       /\ RowChars(0) = <<97, 98, SP, SP, SP>>
       /\ SubSeq(RowChars(1), 1, 2) = <<99, 100>>

C13_LineFeedAndReturn == [][C13_Step]_vars /\ []C13_Example

\* a line feed taken from the middle of a row, without a scroll
C13_Witness ==
    /\ tok.kind = "lf" /\ scrolled = 0
    /\ cursor_x = 0 /\ cursor_y >= 1
    /\ width >= 3
    /\ contents[cursor_y][2].c # SP /\ contents[cursor_y][3].c = SP

----------------------------------------------------------------------------
(* C14: a run of n printable characters written at (x, y) with             *)
(* x + n < width sets cells x..x+n-1 of row y to the characters, each with *)
(* the current colour, moves the cursor to (x+n, y) and changes no other   *)
(* cell; a colour change afterwards changes no cell.                       *)

C14_Step ==
    /\ (tok'.kind = "text" /\ cursor_x + Len(tok'.arg) < width)
        => /\ \A y \in 1..height : \A x \in 1..width :
                contents'[y][x] =
                    IF y = cursor_y + 1 /\ x - 1 >= cursor_x
                       /\ x - 1 < cursor_x + Len(tok'.arg)
                    THEN Cell(tok'.arg[x - cursor_x], color)
                    ELSE contents[y][x]
           /\ cursor_x' = cursor_x + Len(tok'.arg)
           /\ cursor_y' = cursor_y
           /\ color' = color
    /\ (tok'.kind = "csi" /\ tok'.arg[Len(tok'.arg)] = Chm)
        => contents' = contents

C14_WriteText == [][C14_Step]_vars

\* a coloured run written after a cell of another colour
C14_Witness ==
    /\ tok.kind = "text" /\ Len(tok.arg) >= 2
    /\ scrolled = 0
    /\ cursor_x = Len(tok.arg) + 1
    /\ color # None
    /\ contents[cursor_y + 1][1] = Cell(97, None)
    /\ contents[cursor_y + 1][2].color = color

----------------------------------------------------------------------------
(* C15: render emits the cells in row-major order with a newline after     *)
(* each row, and a colour call immediately before a cell's character iff   *)
(* the cell's colour differs from the previous cell's (None before the     *)
(* first cell, carried across rows): restoreColor for None, setAnsiColor   *)
(* for an int, setRgbColor for a triple.  A row coloured [A, A, B, B, A]   *)
(* gets exactly 3 colour calls.                                            *)

NCells == width * height
FlatCell(k) == contents[((k - 1) \div width) + 1][((k - 1) % width) + 1]
PrevColor(k) == IF k = 1 THEN None ELSE FlatCell(k - 1).color
Transitions == {k \in 1..NCells : FlatCell(k).color # PrevColor(k)}

IsColorOp(c) == c.op \in {"restoreColor", "setAnsiColor", "setRgbColor"}

\* the position in out of the k-th writeCharacter call
CharPos(k) ==
    CHOOSE i \in 1..Len(out) :
        /\ out[i].op = "writeCharacter"
        /\ Cardinality({j \in 1..i : out[j].op = "writeCharacter"}) = k

ExpectedColorCall(col) ==
    IF col = None THEN [op |-> "restoreColor", args |-> <<>>]
    ELSE IF Len(col) = 1 THEN [op |-> "setAnsiColor", args |-> <<col[1]>>]
    ELSE [op |-> "setRgbColor", args |-> <<col[1], col[2], col[3]>>]

FiveColors ==
    Sgr(<<31>>) \o <<97, 97>> \o Sgr(<<32>>) \o <<98, 98>> \o Sgr(<<31>>) \o <<97>>

C15_RenderTransitions ==
    pc = "done" =>
    /\ Cardinality({i \in 1..Len(out) : out[i].op = "writeCharacter"}) = NCells
    /\ Cardinality({i \in 1..Len(out) : out[i].op = "writeNewline"}) = height
    /\ Cardinality({i \in 1..Len(out) : IsColorOp(out[i])}) = Cardinality(Transitions)
    /\ Len(out) = NCells + height + Cardinality(Transitions)
    /\ \A k \in 1..NCells :
        LET i == CharPos(k)
        IN  /\ out[i].args = <<FlatCell(k).c>>
            /\ k \in Transitions
                 => i > 1 /\ out[i - 1] = ExpectedColorCall(FlatCell(k).color)
            /\ k \notin Transitions /\ i > 1 => ~IsColorOp(out[i - 1])
            /\ k % width = 0 => out[i + 1].op = "writeNewline"
    /\ (width = 5 /\ nwrites = 1 /\ chunk = FiveColors)
        => Cardinality({i \in 1..(CharPos(5)) : IsColorOp(out[i])}) = 3

\* a rendered grid with an RGB cell and at least two colour transitions
C15_Witness ==
    /\ pc = "done"
    /\ height >= 2
    /\ Cardinality(Transitions) >= 2
    /\ \E k \in 1..NCells : Len(FlatCell(k).color) = 3

----------------------------------------------------------------------------
(* C16: every iteration of the loop of write consumes at least one         *)
(* character of the remaining input, so the loop reaches the end of every  *)
(* input (within len(input) iterations): it never stops with input left.   *)

C16_TokenizerProgress ==
    /\ [][Running => Len(data') < Len(data)]_vars
    /\ [](~Running => data = <<>>)

----------------------------------------------------------------------------
(* C18: wrap is immediate.  A run whose last character lands in the last   *)
(* column leaves the cursor at column 0 of the next row; on the bottom row *)
(* the buffer scrolls at once, so the run is in the row above the cursor   *)
(* afterwards, and on a buffer of height 1 the row reads all spaces.       *)

RowCharsOf(rows, y) == [x \in 1..width |-> rows[y + 1][x].c]

C18_Step ==
    (tok'.kind = "text" /\ cursor_x + Len(tok'.arg) = width)
    => /\ cursor_x' = 0
       /\ IF cursor_y < height - 1
          THEN /\ cursor_y' = cursor_y + 1
               /\ scrolled' = 0
               /\ SubSeq(RowCharsOf(contents', cursor_y), cursor_x + 1, width) = tok'.arg
          ELSE /\ cursor_y' = height - 1
               /\ scrolled' = 1
               /\ \A x \in 1..width : contents'[height][x].c = SP
               /\ height >= 2
                    => SubSeq(RowCharsOf(contents', height - 2), cursor_x + 1, width)
                       = tok'.arg

C18_ImmediateWrap == [][C18_Step]_vars

\* a run of exactly width characters written from column 0 of the bottom row
C18_Witness ==
    /\ tok.kind = "text" /\ Len(tok.arg) = width
    /\ width >= 2 /\ height >= 2
    /\ scrolled = 1
    /\ cursor_x = 0 /\ cursor_y = height - 1
    /\ RowChars(height - 2) = tok.arg

----------------------------------------------------------------------------
(* C19: an OSC sequence, an ESC plus one byte, a CSI sequence whose final  *)
(* byte is not m, J or K, and an unmatched single byte do not raise and    *)
(* leave grid, cell colours, cursor and current colour unchanged.          *)

Unhandled(t) ==
    \/ t.kind \in {"osc", "c0", "unmatched"}
    \/ t.kind = "csi" /\ t.arg[Len(t.arg)] \notin {Chm, ChJ, ChK}

C19_UnhandledIsNoop ==
    [][ Unhandled(tok')
        => status' = "ready"
           /\ UNCHANGED <<contents, cursor_x, cursor_y, color>> ]_vars

\* an unhandled CSI sequence met with text on the row and a colour set
C19_Witness ==
    /\ tok.kind = "csi" /\ tok.arg[Len(tok.arg)] \notin {Chm, ChJ, ChK}
    /\ cursor_x >= 1
    /\ color # None
    /\ contents[cursor_y + 1][1].c # SP
    /\ status = "ready"

----------------------------------------------------------------------------
(* C17: with no timestamp given and the delays summing to at most the      *)
(* duration, every chunk of stdout has been written, in order, when render *)
(* is called; and the chunks written are always a prefix of stdout.        *)

RECURSIVE SumDelays(_)
SumDelays(fs) == IF fs = <<>> THEN 0 ELSE fs[1].delay + SumDelays(Tail(fs))

Outputs(fs) == [i \in 1..Len(fs) |-> fs[i].output]

C17_Prefix ==
    /\ Len(written) <= Len(frames)
    /\ written = SubSeq(Outputs(frames), 1, Len(written))

C17_DefaultIsEnd ==
    /\ C17_Prefix
    /\ (pc = "done" /\ tsarg = <<>> /\ SumDelays(frames) <= duration)
        => written = Outputs(frames)

----------------------------------------------------------------------------
(* C20: for strings a, b where len(a) is not strictly inside an OSC, CSI   *)
(* or ESC+byte match of the tokenization of a+b, write(a) followed by      *)
(* write(b) leaves the same grid, colours, cursor and current colour as    *)
(* write(a+b), from the buffer state a first chunk left.                   *)

TokLen(d) ==
    IF OSC_regex(d) > 0 THEN OSC_regex(d)
    ELSE IF CSI_regex(d) > 0 THEN CSI_regex(d)
    ELSE IF C0_regex(d) > 0 THEN C0_regex(d)
    ELSE IF text_regex(d) > 0 THEN text_regex(d)
    ELSE 1

IsEscape(d) == OSC_regex(d) > 0 \/ CSI_regex(d) > 0 \/ C0_regex(d) > 0

RECURSIVE CutOK(_, _, _)
\* position k of the string is not strictly inside an escape token of its
\* tokenization; d is what remains after off characters
CutOK(d, off, k) ==
    IF d = <<>> \/ off >= k THEN TRUE
    ELSE IF IsEscape(d) /\ k < off + TokLen(d) THEN FALSE
    ELSE CutOK(Drop(d, TokLen(d)), off + TokLen(d), k)

InitBuf == [cursor_x |-> 0, cursor_y |-> 0, color |-> None,
            contents |-> NewContents(width, height),
            scrolled |-> 0, raised |-> FALSE]

\* the replay is over: every frame was written, or a write raised
ReplayOver ==
    \/ status = "raised"
    \/ pc # "loop" /\ Len(written) = Len(frames)

C20_ChunkingIndependent ==
    (ReplayOver /\ Len(frames) = 3 /\ Timestamp > SumDelays(frames)
     /\ CutOK(frames[2].output \o frames[3].output, 0, Len(frames[2].output)))
    => LET whole == writeLoop(writeLoop(InitBuf, frames[1].output),
                              frames[2].output \o frames[3].output)
       IN  /\ contents = whole.contents
           /\ cursor_x = whole.cursor_x
           /\ cursor_y = whole.cursor_y
           /\ color = whole.color
           /\ (status = "raised") = whole.raised

\* a string delivered in two non-empty chunks, cut inside a text run that
\* wrapped, after a first chunk
C20_Witness ==
    /\ pc = "done"
    /\ Len(frames) = 3 /\ Len(written) = 3
    /\ frames[1].output # <<>>
    /\ frames[2].output # <<>> /\ frames[3].output # <<>>
    /\ text_regex(frames[2].output) = Len(frames[2].output)
    /\ text_regex(frames[3].output) >= 1
    /\ cursor_y >= 1
    /\ \E k \in 1..NCells : FlatCell(k).c # SP

====
